---- MODULE Spec2Model ----
(***************************************************************************)
(* Killer Sudoku solver (dwinkelman0/KillerSudokuRust): the combinations   *)
(* enumerator, the Cell domain, the Cage operations and reducers, puzzle   *)
(* construction, the guess-and-fork search and the generator's cage        *)
(* merges, as state machines.                                              *)
(*                                                                         *)
(* A u64 bit mask is modelled as the set of the positions of its set bits  *)
(* (a subset of 0..63): x & y is \cap, x | y is \cup, !x is the complement *)
(* in 0..63, 1 << i is {i}, popcnt64 is Cardinality.                       *)
(*                                                                         *)
(* A Result is a record [tag, val]: tag "Ok" with the value, tag "Err" for *)
(* Err(()), tag "Panic" for an abort (a failed assert!, an unwrap of None, *)
(* an arithmetic overflow of usize/u64, an index out of bounds, a division *)
(* by zero).                                                               *)
(***************************************************************************)
EXTENDS Integers, Sequences, FiniteSets, TLC

VARIABLES
    call,      \* the call under study of the enumerator or of a Cell: its name and arguments
    ret,       \* what that call returned
    cell,      \* the Cell that is restricted
    input,     \* the user's cage list and the perform_checks flag
    puzzle,    \* what init_cages made of Puzzle::new() and the input
    threads,   \* the live calls of solve_until_stuck_then_guess_and_fork, outermost first
    result,    \* what solve returned
    valid,     \* the valid completions of the input (for the properties only)
    cap_hit,   \* some call has returned Err at the depth cap (for the properties only)
    generator  \* the puzzle generator: its solution grid and its cages with their adjacency

call_vars == <<call, ret, cell>>

solver_vars == <<input, puzzle, threads, result, valid, cap_hit>>

vars == <<call, ret, cell, input, puzzle, threads, result, valid, cap_hit, generator>>

\* ------------------------------------------------------------------ results

Ok(v) == [tag |-> "Ok", val |-> v]

Err == [tag |-> "Err", val |-> <<>>]

\* An abort, with what aborted.
Panic(why) == [tag |-> "Panic", val |-> why]

NoCall == [fn |-> "none"]

NoRet == [tag |-> "none", val |-> <<>>]

\* The generator where it is not under study.
NoGenerator == [numbers |-> <<>>, cages |-> <<>>]

\* ------------------------------------------------------------------ bits

\* Width of u64: a shift by 64 or more overflows.
WordBits == 64

AllBits == 0..(WordBits - 1)

Min(S) == CHOOSE x \in S : \A y \in S : x <= y

Max(S) == CHOOSE x \in S : \A y \in S : x >= y

RECURSIVE SumSet(_)
SumSet(S) == IF S = {} THEN 0 ELSE LET x == Min(S) IN x + SumSet(S \ {x})

\* The bit positions of a mask in ascending order (the PossibleValues iterator).
RECURSIVE Ascending(_)
Ascending(S) == IF S = {} THEN <<>> ELSE LET x == Min(S) IN <<x>> \o Ascending(S \ {x})

popcnt64(x) == Cardinality(x)

\* x >> n
Shr(x, n) == {b - n : b \in {c \in x : c >= n}}

\* util.rs onehot: the binary search for the position of the only set bit.
RECURSIVE onehot_loop(_, _, _)
onehot_loop(x, output, scaling) ==
    IF Shr(x, output) # {0} /\ scaling # 0
    THEN onehot_loop(x,
                     IF Shr(x, output + scaling) # {} THEN output + scaling ELSE output,
                     scaling \div 2)
    ELSE output

\* Option<usize>: <<>> is None, <<i>> is Some(i).
onehot(x) == IF popcnt64(x) = 1 THEN <<onehot_loop(x, 0, 32)>> ELSE <<>>

\* let v = value; body: the value is computed once and bound to v.
Let(value, body(_)) == CHOOSE out \in {body(v) : v \in {value}} : TRUE

\* ------------------------------------------------------------------ combinations.rs

\* The largest digit of a cell.
MaxDigit == 9

RECURSIVE recurse(_, _, _, _, _)
RECURSIVE recurse_for(_, _, _, _, _, _)

\* for i in lo..=upper_limit { recurse(num_cells - 1, sum - i, i + 1, accum | (1 << i), output)?; }
recurse_for(num_cells, sum, i, upper_limit, accum, output) ==
    IF i > upper_limit THEN Ok(output)
    ELSE Let(recurse(num_cells - 1, sum - i, i + 1, accum \cup {i}, output),
             LAMBDA r : IF r.tag # "Ok" THEN r
                        ELSE recurse_for(num_cells, sum, i + 1, upper_limit, accum, r.val))

recurse(num_cells, sum, current_value, accum, output) ==
    IF num_cells = 1
    THEN IF ~(current_value <= sum) THEN Panic("assert current_value <= sum")
         ELSE IF sum >= WordBits THEN Panic("1 << sum overflows")
         ELSE Ok(Append(output, accum \cup {sum}))
    ELSE IF num_cells = 0 \/ num_cells - 1 > MaxDigit
         THEN Panic("usize underflow")                  \* num_cells - 1, 9 - (num_cells - 1)
    ELSE LET half == (num_cells * (num_cells - 1)) \div 2
             forced_max == (MaxDigit - (num_cells - 1)) * (num_cells - 1) + half
             lower_limit == IF forced_max < sum
                            THEN (IF sum - forced_max < MaxDigit THEN sum - forced_max ELSE MaxDigit)
                            ELSE 1
             forced_min == (current_value - 1) * (num_cells - 1) + half
             ceiling == (sum - half) \div num_cells
             upper_limit == Min({sum - forced_min, ceiling, MaxDigit})
             lo == IF current_value > lower_limit THEN current_value ELSE lower_limit
         IN IF forced_min < sum
            THEN recurse_for(num_cells, sum, lo, upper_limit, accum, output)
            ELSE Err

\* A plausible slip: the enumeration starts at digit 2 instead of 1.
get_combinations_from_two(num_cells, sum) == recurse(num_cells, sum, 2, {}, <<>>)

get_combinations(num_cells, sum) == recurse(num_cells, sum, 1, {}, <<>>)

RECURSIVE fold_or(_, _)
fold_or(list, accum) ==
    IF list = <<>> THEN accum ELSE fold_or(Tail(list), accum \cup Head(list))

get_combinations_union(num_cells, sum) ==
    Let(get_combinations(num_cells, sum),
        LAMBDA r : IF r.tag = "Ok" THEN Ok(fold_or(r.val, {})) ELSE r)

\* ------------------------------------------------------------------ cell.rs

\* Cell::default: possible_values = (1 << 10) - 2, the bits 1..9.
Cell_default == 1..MaxDigit

get_solution(c) == onehot(c)

num_possible_solutions(c) == popcnt64(c)

\* A restrict_to that joins the mask to the domain.
restrict_to_joining(c, mask) == c \cup mask

\* Cell::restrict_to returns Cell { possible_values: self.possible_values & possible_values }:
\* a Cell in every case, also when no bit is left.
restrict_to(c, possible_values) == c \cap possible_values

\* !x
Not(x) == AllBits \ x

\* ------------------------------------------------------------------ cage.rs

\* The board: [Cell; 81], indexed 0..80.
BoardCells == 81

CellIndex == 0..(BoardCells - 1)

RECURSIVE insert_sorted(_, _)
insert_sorted(s, x) ==
    IF s = <<>> THEN <<x>>
    ELSE IF x < Head(s) THEN <<x>> \o s
    ELSE <<Head(s)>> \o insert_sorted(Tail(s), x)

\* Vec::sort
RECURSIVE sort(_)
sort(s) == IF s = <<>> THEN <<>> ELSE insert_sorted(sort(Tail(s)), Head(s))

\* A Cage is a record [cells, sum, uniqueness]: cage.rs keeps cells and sum; puzzle.rs
\* passes and reads the third field (Cage::new(cells, sum, true), cage.uniqueness). No
\* reducer of cage.rs reads the flag.
Cage_new(cells, sum, uniqueness) ==
    [cells |-> sort(cells), sum |-> sum, uniqueness |-> uniqueness]

Cage_empty == [cells |-> <<>>, sum |-> 0, uniqueness |-> FALSE]

CellSet(cage) == {cage.cells[i] : i \in 1..Len(cage.cells)}

RECURSIVE dof_from(_, _, _)
dof_from(cells, i, board) ==
    IF i > Len(cells) THEN 0
    ELSE num_possible_solutions(board[cells[i]]) + dof_from(cells, i + 1, board)

get_degrees_of_freedom(cage, board) == dof_from(cage.cells, 1, board)

merge(self, other) ==
    [self EXCEPT !.cells = sort(self.cells \o other.cells), !.sum = self.sum + other.sum]

\* The three-way merge of two cell lists: <<A intersect B, A - B, B - A>>.
RECURSIVE iad_loop(_, _, _, _, _)
iad_loop(a, b, intersection, difference_a, difference_b) ==
    IF a # <<>> /\ b # <<>>
    THEN IF Head(a) = Head(b)
         THEN iad_loop(Tail(a), Tail(b), Append(intersection, Head(a)), difference_a, difference_b)
         ELSE IF Head(a) < Head(b)
         THEN iad_loop(Tail(a), b, intersection, Append(difference_a, Head(a)), difference_b)
         ELSE iad_loop(a, Tail(b), intersection, difference_a, Append(difference_b, Head(b)))
    ELSE <<intersection, difference_a \o a, difference_b \o b>>

\* The three-way merge with its two differences handed back in each other's place.
get_intersection_and_difference_swapped(self, other) ==
    Let(iad_loop(self.cells, other.cells, <<>>, <<>>, <<>>),
        LAMBDA r : <<r[1], r[3], r[2]>>)

get_intersection_and_difference(self, other) ==
    iad_loop(self.cells, other.cells, <<>>, <<>>, <<>>)

\* What a reducer hands back: the board it left and what it found.
Reduced(board, progress) == Ok([board |-> board, progress |-> progress])

\* for each cell of `cells`: board[cell] = board[cell].restrict_to(mask)
RECURSIVE restrict_cells(_, _, _, _)
restrict_cells(board, cells, i, mask) ==
    IF i > Len(cells) THEN board
    ELSE restrict_cells([board EXCEPT ![cells[i]] = restrict_to(board[cells[i]], mask)],
                        cells, i + 1, mask)

\* Every cell of the cage is intersected with the union of the combinations of
\* (cells.len(), sum). get_combinations_union is a Result (combinations.rs:60); its
\* Err(()) is what puzzle.rs:199 propagates with `?`.
restrict_by_uniform_combination(self, board) ==
    IF ~(CellSet(self) \subseteq CellIndex) THEN Panic("index out of bounds")
    ELSE Let(get_combinations_union(Len(self.cells), self.sum),
             LAMBDA combinations_union :
                 IF combinations_union.tag # "Ok" THEN combinations_union
                 ELSE Let(restrict_cells(board, self.cells, 1, combinations_union.val),
                          LAMBDA after :
                              Reduced(after, get_degrees_of_freedom(self, after)
                                                 < get_degrees_of_freedom(self, board))))

\* v.sort_by_key(|(_, possible_values)| popcnt64(*possible_values)): a stable sort.
RECURSIVE insert_by_popcount(_, _)
insert_by_popcount(s, x) ==
    IF s = <<>> THEN <<x>>
    ELSE IF popcnt64(x[2]) < popcnt64(Head(s)[2]) THEN <<x>> \o s
    ELSE <<Head(s)>> \o insert_by_popcount(Tail(s), x)

RECURSIVE sort_by_popcount(_)
sort_by_popcount(s) ==
    IF s = <<>> THEN <<>>
    ELSE insert_by_popcount(sort_by_popcount(SubSeq(s, 1, Len(s) - 1)), s[Len(s)])

RECURSIVE fold_combinations(_, _, _, _)
RECURSIVE fold_one(_, _, _)
RECURSIVE fold_range(_, _, _, _, _)

\* choose = 1: (index..data.len()).filter_map(...)
fold_one(i, max_value_len, data) ==
    IF i >= Len(data) THEN <<>>
    ELSE LET key == data[i + 1][1]
             value == data[i + 1][2]
         IN (IF popcnt64(value) <= max_value_len THEN <<(<<{key}, value>>)>> ELSE <<>>)
            \o fold_one(i + 1, max_value_len, data)

\* choose >= 2: (index..(data.len() - choose - 1)).map(...).flatten()
fold_range(i, end, choose, max_value_len, data) ==
    IF i >= end THEN <<>>
    ELSE LET key == data[i + 1][1]
             value == data[i + 1][2]
             folded == fold_combinations(i + 1, choose - 1, max_value_len, data)
             updated == [j \in 1..Len(folded) |->
                            <<folded[j][1] \cup {key}, folded[j][2] \cup value>>]
         IN SelectSeq(updated, LAMBDA e : popcnt64(e[2]) <= max_value_len)
            \o fold_range(i + 1, end, choose, max_value_len, data)

\* The list of <<cells, values>>: cells the positions (in the cage) of the chosen
\* cells, values the union of their domains. choose = 0 (panic!("Invalid
\* condition")) is never asked for: check_for_partitions starts at 1.
fold_combinations(index, choose, max_value_len, data) ==
    IF choose = 1 THEN fold_one(index, max_value_len, data)
    ELSE fold_range(index, Len(data) - choose - 1, choose, max_value_len, data)

\* The cells of the cage at the positions (0-based) that satisfy or do not satisfy `cells`.
PickCells(self, cells, wanted) ==
    SelectSeq([i \in 1..Len(self.cells) |-> <<i - 1, self.cells[i]>>],
              LAMBDA e : (e[1] \in cells) = wanted)

Second(pairs) == [i \in 1..Len(pairs) |-> pairs[i][2]]

Partitioned(board, res) == Ok([board |-> board, res |-> res])

\* The split that leaves the cells of the remaining cage with the digits of `values`.
split_cage_sparing_remaining(self, board, cells, values) ==
    LET new_cage_cells == Second(PickCells(self, cells, TRUE))
        remaining_cage_cells == Second(PickCells(self, cells, FALSE))
        new_cage_sum == SumSet(values)
        new_cage == Cage_new(new_cage_cells, new_cage_sum, self.uniqueness)
        remaining_cage == Cage_new(remaining_cage_cells, self.sum - new_cage_sum, self.uniqueness)
    IN IF popcnt64(cells) # popcnt64(values)
       THEN Panic("assert_eq popcnt64(cells), popcnt64(values)")
       ELSE IF self.sum < new_cage_sum THEN Panic("usize underflow: self.sum - new_cage_sum")
       ELSE Let(restrict_cells(board, new_cage_cells, 1, values),
                LAMBDA restricted :
                    Let(restrict_by_uniform_combination(remaining_cage, restricted),
                        LAMBDA uniform :
                            IF uniform.tag = "Panic" THEN uniform
                            ELSE Partitioned(IF uniform.tag = "Ok" THEN uniform.val.board
                                             ELSE restricted,
                                             <<new_cage, remaining_cage>>)))

\* cage.rs:167-191: the split of the cage on a found <<cells, values>>. The value of
\* remaining_cage.restrict_by_uniform_combination(board) is not looked at (cage.rs:190):
\* on Err the board is as the two loops left it.
split_cage(self, board, cells, values) ==
    LET new_cage_cells == Second(PickCells(self, cells, TRUE))
        remaining_cage_cells == Second(PickCells(self, cells, FALSE))
        new_cage_sum == SumSet(values)
        new_cage == Cage_new(new_cage_cells, new_cage_sum, self.uniqueness)
        remaining_cage == Cage_new(remaining_cage_cells, self.sum - new_cage_sum, self.uniqueness)
    IN IF popcnt64(cells) # popcnt64(values)
       THEN Panic("assert_eq popcnt64(cells), popcnt64(values)")
       ELSE IF self.sum < new_cage_sum THEN Panic("usize underflow: self.sum - new_cage_sum")
       ELSE Let(restrict_cells(restrict_cells(board, new_cage_cells, 1, values),
                               remaining_cage_cells, 1, Not(values)),
                LAMBDA restricted :
                    Let(restrict_by_uniform_combination(remaining_cage, restricted),
                        LAMBDA uniform :
                            IF uniform.tag = "Panic" THEN uniform
                            ELSE Partitioned(IF uniform.tag = "Ok" THEN uniform.val.board
                                             ELSE restricted,
                                             <<new_cage, remaining_cage>>)))

\* for i in 1..=(len - 1): the first <<cells, values>> of the smallest i that has one.
RECURSIVE partition_search(_, _, _, _)
partition_search(self, board, possible_values_by_cell, i) ==
    IF i > Len(possible_values_by_cell) - 1 THEN Partitioned(board, <<>>)
    ELSE Let(fold_combinations(0, i, i, possible_values_by_cell),
             LAMBDA found :
                 IF found = <<>>
                 THEN partition_search(self, board, possible_values_by_cell, i + 1)
                 ELSE Let(found[1], LAMBDA first : split_cage(self, board, first[1], first[2])))

check_for_partitions(self, board) ==
    IF ~(CellSet(self) \subseteq CellIndex) THEN Panic("index out of bounds")
    ELSE IF Len(self.cells) = 0 THEN Panic("usize underflow: len - 1")
    ELSE Let(sort_by_popcount([i \in 1..Len(self.cells) |-> <<i - 1, board[self.cells[i]]>>]),
             LAMBDA possible_values_by_cell :
                 partition_search(self, board, possible_values_by_cell, 1))

\* The complement-to-sum mask of a peer's domain: bit_reverse(m) >> (64 - sum - 1),
\* masked to the digits 1..9.
complement_to_sum(m, sum) == {sum - d : d \in {e \in m : e < sum}} \cap (1..MaxDigit)

\* Cage::restrict_by_combination (called at puzzle.rs:168) is not in cage.rs: the
\* reducer for a 2-cell uniqueness cage, each cell intersected with the
\* complement-to-sum mask of its peer, built on Cell::restrict_to.
restrict_by_combination(self, board) ==
    LET a == self.cells[1]
        b == self.cells[2]
        after == [board EXCEPT ![a] = restrict_to(board[a], complement_to_sum(board[b], self.sum)),
                               ![b] = restrict_to(board[b], complement_to_sum(board[a], self.sum))]
    IN IF ~(CellSet(self) \subseteq CellIndex) THEN Panic("index out of bounds")
       ELSE IF Len(self.cells) = 2 /\ self.uniqueness /\ a # b
       THEN IF self.sum >= WordBits THEN Panic("usize underflow: 64 - sum - 1")
            ELSE Reduced(after,
                         get_degrees_of_freedom(self, after) < get_degrees_of_freedom(self, board))
       ELSE Reduced(board, FALSE)


\* The cage's sum less the digits of its solved cells; a sum smaller than those digits
\* underflows the usize.
RECURSIVE remaining_sum_from(_, _, _, _)
remaining_sum_from(cells, i, board, accum) ==
    IF i > Len(cells) THEN accum
    ELSE Let(get_solution(board[cells[i]]),
             LAMBDA solution :
                 remaining_sum_from(cells, i + 1, board,
                                    accum - (IF solution = <<>> THEN 0 ELSE solution[1])))

get_remaining_sum(self, board) == remaining_sum_from(self.cells, 1, board, self.sum)

\* (1 << 10) - 1 without the bits of the digits of the solved cells.
get_remaining_numbers(self, board) ==
    (0..MaxDigit) \ {d \in 0..MaxDigit : \E i \in 1..Len(self.cells) :
                                            get_solution(board[self.cells[i]]) = <<d>>}

\* The fold over the cell's own digits: a digit goes when the other cell, without that
\* digit, has no digit that completes it to one of possible_sums.
pairwise_restriction(self, other, possible_sums) ==
    {cell_value \in self :
        restrict_to(other, Not({cell_value})) \cap Shr(possible_sums, cell_value) # {}}

\* loop { ... } of restrict_subset for two cells: until neither cell changes.
RECURSIVE pairwise_loop(_, _, _)
pairwise_loop(cell_a, cell_b, remaining_sum) ==
    LET new_cell_a == pairwise_restriction(cell_a, cell_b, remaining_sum)
        new_cell_b == pairwise_restriction(cell_b, cell_a, remaining_sum)
    IN IF new_cell_a = cell_a /\ new_cell_b = cell_b
       THEN <<new_cell_a, new_cell_b>>
       ELSE pairwise_loop(new_cell_a, new_cell_b, remaining_sum)

restrict_subset(current_cell, unsolved_cells, remaining_sum, remaining_numbers) ==
    IF Len(unsolved_cells) = 0
    THEN <<restrict_to(current_cell, remaining_sum \cap remaining_numbers)>>
    ELSE IF Len(unsolved_cells) = 1
    THEN pairwise_loop(current_cell, unsolved_cells[1], remaining_sum)
    ELSE <<current_cell>> \o unsolved_cells

\* board[index] = solved_cells[i] for the i-th of unsolved_cells
RECURSIVE store_cells(_, _, _, _)
store_cells(board, unsolved_cells, solved_cells, i) ==
    IF i > Len(unsolved_cells) THEN board
    ELSE store_cells([board EXCEPT ![unsolved_cells[i][1]] = solved_cells[i]],
                     unsolved_cells, solved_cells, i + 1)

\* Cage::restrict: the cells that are not solved, and stay unsolved without the digits
\* of the solved cells, are restricted together when they are one or two.
restrict(self, board) ==
    IF ~(CellSet(self) \subseteq CellIndex) THEN Panic("index out of bounds")
    ELSE Let(get_remaining_sum(self, board),
      LAMBDA remaining_sum :
        IF remaining_sum < 0 THEN Panic("usize underflow: accum - solution")
        ELSE IF remaining_sum = 0 THEN Reduced(board, FALSE)
        ELSE Let(get_remaining_numbers(self, board),
          LAMBDA remaining_numbers :
            Let(sort_by_popcount(
                    SelectSeq([i \in 1..Len(self.cells) |->
                                  <<self.cells[i],
                                    restrict_to(board[self.cells[i]], remaining_numbers)>>],
                              LAMBDA e : /\ get_solution(board[e[1]]) = <<>>
                                         /\ get_solution(e[2]) = <<>>)),
              LAMBDA unsolved_cells :
                IF unsolved_cells = <<>> THEN Panic("unwrap on None: cells_to_solve.first()")
                ELSE IF remaining_sum >= WordBits THEN Panic("shift overflow: 1 << remaining_sum")
                ELSE Let(store_cells(board, unsolved_cells,
                                     restrict_subset(unsolved_cells[1][2],
                                                     Tail(Second(unsolved_cells)),
                                                     {remaining_sum}, remaining_numbers),
                                     1),
                         LAMBDA after :
                             Reduced(after, get_degrees_of_freedom(self, after)
                                                < get_degrees_of_freedom(self, board))))))
\* ------------------------------------------------------------------ puzzle.rs

\* Rows, columns and boxes: 9 of each, each of 9 cells and of sum 45.
BoardSide == 9

BoxSide == 3

HouseSum == 45

\* #[derive(PartialOrd, Ord)] on Vec<usize>: lexicographic. -1, 0 or 1.
RECURSIVE cmp_cells(_, _)
cmp_cells(a, b) ==
    IF a = <<>> THEN (IF b = <<>> THEN 0 ELSE -1)
    ELSE IF b = <<>> THEN 1
    ELSE IF Head(a) < Head(b) THEN -1
    ELSE IF Head(a) > Head(b) THEN 1
    ELSE cmp_cells(Tail(a), Tail(b))

\* The derived order of Cage: by cells, then sum, then uniqueness (false < true).
cage_less(a, b) ==
    LET c == cmp_cells(a.cells, b.cells)
    IN \/ c < 0
       \/ c = 0 /\ a.sum < b.sum
       \/ c = 0 /\ a.sum = b.sum /\ ~a.uniqueness /\ b.uniqueness

\* BTreeSet<Cage> is the sequence of its cages in ascending order, without duplicates.
\* insert puts the cage after the cages that are less than it, or leaves the set as
\* it is when it has the cage.
BTreeSet_insert(set, cage) ==
    LET before == Cardinality({i \in 1..Len(set) : cage_less(set[i], cage)})
    IN IF \E i \in 1..Len(set) : set[i] = cage THEN set
       ELSE SubSeq(set, 1, before) \o <<cage>> \o SubSeq(set, before + 1, Len(set))

BTreeSet_remove(set, cage) == SelectSeq(set, LAMBDA c : c # cage)

\* The cages lo..hi of a list inserted one after the other (the range is halved
\* to keep the evaluation shallow; the order of the inserts is that of the list).
RECURSIVE BTreeSet_insert_range(_, _, _, _)
BTreeSet_insert_range(set, cages, lo, hi) ==
    IF lo > hi THEN set
    ELSE IF lo = hi THEN BTreeSet_insert(set, cages[lo])
    ELSE LET mid == (lo + hi) \div 2
         IN Let(BTreeSet_insert_range(set, cages, lo, mid),
                LAMBDA left : BTreeSet_insert_range(left, cages, mid + 1, hi))

BTreeSet_insert_all(set, cages) == BTreeSet_insert_range(set, cages, 1, Len(cages))

row_cells(i) == [j \in 1..BoardSide |-> i * BoardSide + (j - 1)]

col_cells(i) == [j \in 1..BoardSide |-> (j - 1) * BoardSide + i]

box_cells(i, j) ==
    [k \in 1..BoardSide |->
        (i * BoxSide + ((k - 1) \div BoxSide)) * BoardSide + (j * BoxSide + ((k - 1) % BoxSide))]

Houses ==
    [i \in 1..BoardSide |-> row_cells(i - 1)]
    \o [i \in 1..BoardSide |-> col_cells(i - 1)]
    \o [k \in 1..BoardSide |-> box_cells((k - 1) \div BoxSide, (k - 1) % BoxSide)]

\* Puzzle::new: default cells and the 27 cages of the rows, columns and boxes.
Puzzle_new ==
    [board |-> [c \in CellIndex |-> Cell_default],
     cages |-> BTreeSet_insert_all(<<>>,
                   [h \in 1..Len(Houses) |-> Cage_new(Houses[h], HouseSum, TRUE)])]

\* check_cages: for each cell the number of times the cages list it; the cells whose
\* count is not `expected`. A cell index above 80 is out of the bounds of `sums`.
count_cells(cages) ==
    Let({<<i, k>> \in (1..Len(cages)) \X (1..BoardCells) : k <= Len(cages[i].cells)},
        LAMBDA listed :
            [c \in CellIndex |-> Cardinality({e \in listed : cages[e[1]].cells[e[2]] = c})])

check_cages(cages, expected) ==
    IF \E i \in 1..Len(cages) : ~(CellSet(cages[i]) \subseteq CellIndex)
    THEN Panic("index out of bounds")
    ELSE Let(count_cells(cages), LAMBDA sums : Ok({c \in CellIndex : sums[c] # expected}))

\* The largest derived cages.
MAX_DERIVED_CAGE_SIZE == 8

MaxExcessSize == 4

\* The step that leaves the parent's sum as it is when a child is taken out of it.
derive_step_keeping_sum(child_cage, parent_cage, excess_cage) ==
    IF ~(Len(child_cage.cells) < BoardSide) THEN Ok(<<parent_cage, excess_cage>>)
    ELSE Let(get_intersection_and_difference(parent_cage, child_cage),
             LAMBDA iad :
                 IF Len(iad[3]) = 0
                 THEN IF parent_cage.sum < child_cage.sum
                      THEN Panic("usize underflow: parent_cage.sum - child_cage.sum")
                      ELSE Ok(<<Cage_new(iad[2], parent_cage.sum, TRUE),
                                excess_cage>>)
                 ELSE IF Len(iad[1]) > 0
                 THEN Ok(<<parent_cage, merge(excess_cage, child_cage)>>)
                 ELSE Ok(<<parent_cage, excess_cage>>))

\* puzzle.rs:67-78: one cage of the pass over the cages of fewer than 9 cells.
derive_step(child_cage, parent_cage, excess_cage) ==
    IF ~(Len(child_cage.cells) < BoardSide) THEN Ok(<<parent_cage, excess_cage>>)
    ELSE Let(get_intersection_and_difference(parent_cage, child_cage),
             LAMBDA iad :
                 IF Len(iad[3]) = 0
                 THEN IF parent_cage.sum < child_cage.sum
                      THEN Panic("usize underflow: parent_cage.sum - child_cage.sum")
                      ELSE Ok(<<Cage_new(iad[2], parent_cage.sum - child_cage.sum, TRUE),
                                excess_cage>>)
                 ELSE IF Len(iad[1]) > 0
                 THEN Ok(<<parent_cage, merge(excess_cage, child_cage)>>)
                 ELSE Ok(<<parent_cage, excess_cage>>))

\* The pass over the cages lo..hi, in the set's order.
RECURSIVE derive_scan(_, _, _, _, _)
derive_scan(cages, lo, hi, parent_cage, excess_cage) ==
    IF lo > hi THEN Ok(<<parent_cage, excess_cage>>)
    ELSE IF lo = hi THEN derive_step(cages[lo], parent_cage, excess_cage)
    ELSE LET mid == (lo + hi) \div 2
         IN Let(derive_scan(cages, lo, mid, parent_cage, excess_cage),
                LAMBDA left : IF left.tag # "Ok" THEN left
                              ELSE derive_scan(cages, mid + 1, hi, left.val[1], left.val[2]))

\* The closure of derive_cages for one 9-cell parent: the list of its derived cages.
derive_for_parent(cages, parent) ==
    Let(derive_scan(cages, 1, Len(cages), parent, Cage_empty),
        LAMBDA scan :
            IF scan.tag # "Ok" THEN scan
            ELSE Let(get_intersection_and_difference(scan.val[2], scan.val[1]),
                     LAMBDA iad :
                         LET parent_cage == scan.val[1]
                             excess_cage == scan.val[2]
                             excess_difference == iad[2]
                             parent_difference == iad[3]
                             has_excess == /\ 0 < Len(excess_difference)
                                           /\ Len(excess_difference) <= MaxExcessSize
                             has_parent == /\ 0 < Len(parent_cage.cells)
                                           /\ Len(parent_cage.cells) <= MAX_DERIVED_CAGE_SIZE
                         IN IF Len(parent_difference) # 0
                            THEN Panic("assert_eq parent_difference.len(), 0")
                            ELSE IF has_excess /\ excess_cage.sum < parent_cage.sum
                            THEN Panic("usize underflow: excess_cage.sum - parent_cage.sum")
                            ELSE Ok((IF has_excess
                                     THEN <<Cage_new(excess_difference,
                                                     excess_cage.sum - parent_cage.sum, FALSE)>>
                                     ELSE <<>>)
                                    \o (IF has_parent THEN <<parent_cage>> ELSE <<>>))))

\* The derived cages of the 9-cell cages among cages lo..hi, as a set.
RECURSIVE derive_all(_, _, _, _)
derive_all(cages, lo, hi, new_cages) ==
    IF lo > hi THEN Ok(new_cages)
    ELSE IF lo = hi
    THEN IF Len(cages[lo].cells) # BoardSide THEN Ok(new_cages)
         ELSE Let(derive_for_parent(cages, cages[lo]),
                  LAMBDA d : IF d.tag # "Ok" THEN d
                             ELSE Ok(BTreeSet_insert_all(new_cages, d.val)))
    ELSE LET mid == (lo + hi) \div 2
         IN Let(derive_all(cages, lo, mid, new_cages),
                LAMBDA left : IF left.tag # "Ok" THEN left
                              ELSE derive_all(cages, mid + 1, hi, left.val))

\* derive_cages: the cages derived from every 9-cell cage are added to the set.
derive_cages(self) ==
    Let(derive_all(self.cages, 1, Len(self.cages), <<>>),
        LAMBDA new_cages :
            IF new_cages.tag # "Ok" THEN new_cages
            ELSE Ok([self EXCEPT !.cages = BTreeSet_insert_all(self.cages, new_cages.val)]))

\* The expected number of cages of a cell: its row, column, box and one user cage.
ExpectedCages == 4

\* init_cages: `cages` is a list of <<sum, cells>>.
init_cages(self, cages, perform_checks) ==
    Let([self EXCEPT !.cages =
             BTreeSet_insert_all(self.cages,
                 [i \in 1..Len(cages) |-> Cage_new(cages[i][2], cages[i][1], TRUE)])],
        LAMBDA inserted :
            IF ~perform_checks THEN Ok(inserted)
            ELSE Let(check_cages(inserted.cages, ExpectedCages),
                     LAMBDA check :
                         IF check.tag # "Ok" THEN check
                         ELSE IF check.val # {} THEN Panic("Cells in cages are not balanced")
                         ELSE derive_cages(inserted)))

\* ------------------------------------------------------------------ puzzle.rs: propagation

\* puzzle.rs:198-201: restrict_by_uniform_combination on the cages lo..hi, in the
\* set's order; the first Err or abort ends the pass. (The range is halved to keep
\* the evaluation shallow; the cages are still visited from first to last.)
RECURSIVE uniform_fold(_, _, _, _)
uniform_fold(cages, lo, hi, board) ==
    IF lo > hi THEN Ok(board)
    ELSE IF lo = hi
    THEN Let(restrict_by_uniform_combination(cages[lo], board),
             LAMBDA r : IF r.tag # "Ok" THEN r ELSE Ok(r.val.board))
    ELSE LET mid == (lo + hi) \div 2
         IN Let(uniform_fold(cages, lo, mid, board),
                LAMBDA left : IF left.tag # "Ok" THEN left
                              ELSE uniform_fold(cages, mid + 1, hi, left.val))

\* puzzle.rs:175-180: check_for_partitions on the cages lo..hi; the substitutions
\* found, as <<original_cage, new_cage, remaining_cage>>.
RECURSIVE partition_fold(_, _, _, _, _)
partition_fold(cages, lo, hi, board, accum) ==
    IF lo > hi THEN Ok([board |-> board, substitutions |-> accum])
    ELSE IF lo = hi
    THEN Let(check_for_partitions(cages[lo], board),
             LAMBDA r :
                 IF r.tag # "Ok" THEN r
                 ELSE Ok([board |-> r.val.board,
                          substitutions |->
                              IF r.val.res = <<>> THEN accum
                              ELSE Append(accum, <<cages[lo], r.val.res[1], r.val.res[2]>>)]))
    ELSE LET mid == (lo + hi) \div 2
         IN Let(partition_fold(cages, lo, mid, board, accum),
                LAMBDA left :
                    IF left.tag # "Ok" THEN left
                    ELSE partition_fold(cages, mid + 1, hi, left.val.board,
                                        left.val.substitutions))

\* puzzle.rs:183-189: the substitutions lo..hi applied to the set.
RECURSIVE substitute(_, _, _, _)
substitute(cages, substitutions, lo, hi) ==
    IF lo > hi THEN cages
    ELSE IF lo = hi
    THEN Let(BTreeSet_remove(cages, substitutions[lo][1]),
             LAMBDA removed :
                 Let(BTreeSet_insert(removed, substitutions[lo][2]),
                     LAMBDA inserted : BTreeSet_insert(inserted, substitutions[lo][3])))
    ELSE LET mid == (lo + hi) \div 2
         IN Let(substitute(cages, substitutions, lo, mid),
                LAMBDA left : substitute(left, substitutions, mid + 1, hi))

\* puzzle.rs:166-170: restrict_by_combination on the cages lo..hi.
RECURSIVE combination_fold(_, _, _, _, _)
combination_fold(cages, lo, hi, board, progress) ==
    IF lo > hi THEN Reduced(board, progress)
    ELSE IF lo = hi
    THEN Let(restrict_by_combination(cages[lo], board),
             LAMBDA r : IF r.tag # "Ok" THEN r
                        ELSE Reduced(r.val.board, r.val.progress \/ progress))
    ELSE LET mid == (lo + hi) \div 2
         IN Let(combination_fold(cages, lo, mid, board, progress),
                LAMBDA left :
                    IF left.tag # "Ok" THEN left
                    ELSE combination_fold(cages, mid + 1, hi, left.val.board,
                                          left.val.progress))

\* A slip: any instead of all.
all_solved_any(board) == \E c \in CellIndex : get_solution(board[c]) # <<>>

\* puzzle.rs:208
all_solved(board) == \A c \in CellIndex : get_solution(board[c]) # <<>>

\* ------------------------------------------------------------------ puzzle.rs: the guess

RECURSION_LIMIT == 10

\* puzzle.rs:219-228: for a cell, the cells that share a uniqueness cage with it.
cage_count(cages, c) ==
    UNION {s \in {CellSet(cages[i]) : i \in {j \in 1..Len(cages) : cages[j].uniqueness}} : c \in s}

\* puzzle.rs:229-235: among the unsolved cells the one with the largest
\* cells.len() / num_possible_solutions; max_by_key keeps the last of equal keys.
guess_index(self) ==
    Let({c \in CellIndex : get_solution(self.board[c]) = <<>>},
        LAMBDA unsolved :
            IF unsolved = {} THEN Panic("unwrap of None")
            ELSE IF \E c \in unsolved : num_possible_solutions(self.board[c]) = 0
            THEN Panic("attempt to divide by zero")
            ELSE Let([c \in unsolved |->
                         Cardinality(cage_count(self.cages, c))
                             \div num_possible_solutions(self.board[c])],
                     LAMBDA key :
                         Ok(Max({c \in unsolved : \A d \in unsolved : key[d] <= key[c]}))))

\* puzzle.rs:242-244: puzzle_copy.board[guess_index].restrict_to(1 << guess_value).unwrap();
\* restrict_to takes &self and returns a new Cell (cell.rs:27-31), which this
\* statement drops: the copy's board is as it was.
apply_guess(puzzle_copy, index, guess_value) ==
    LET restricted == restrict_to(puzzle_copy.board[index], {guess_value})
    IN puzzle_copy

\* A slip: the values are handed out from the largest down.
RECURSIVE Descending(_)
Descending(S) == IF S = {} THEN <<>> ELSE LET x == Max(S) IN <<x>> \o Descending(S \ {x})

\* Cell::possible_values: the digits of the cell, ascending.
possible_values(c) == Ascending(c)

\* ------------------------------------------------------------------ puzzles

\* generator.rs:28-33: the digit of a cell in the generator's starting grid.
Canonical(c) ==
    LET row == c \div BoardSide
        col == c % BoardSide
    IN ((col + row * BoxSide + row \div BoxSide) % BoardSide) + 1

\* A user cage list is a list of <<sum, cells>> (io.rs, Puzzle::init_cages).
\* Every cell given: 81 one-cell cages.
Singles == [i \in 1..BoardCells |-> <<Canonical(i - 1), <<i - 1>>>>]

\* The one-cell cages of the cells outside `cells`.
Without(cells) == SelectSeq(Singles, LAMBDA e : e[2][1] \notin cells)

\* The cage of `cells` (a list) with its sum in the starting grid plus `extra`.
CageOf(cells, extra) ==
    LET RECURSIVE total(_)
        total(i) == IF i > Len(cells) THEN 0 ELSE Canonical(cells[i]) + total(i + 1)
    IN <<total(1) + extra, cells>>

Range(s) == {s[i] : i \in 1..Len(s)}

\* The one-cell cages with the cages `merged` (lists of cells) in place of theirs.
Merged(merged, extra) ==
    Without(UNION {Range(merged[i]) : i \in 1..Len(merged)})
        \o [i \in 1..Len(merged) |-> CageOf(merged[i], extra)]

Input(name, cages, perform_checks) ==
    [name |-> name, cages |-> cages, perform_checks |-> perform_checks]

NoInput == Input("none", <<>>, FALSE)

\* The state of the variables of the puzzle where only a call is studied.
NoSolver ==
    /\ input = NoInput
    /\ puzzle = NoRet
    /\ threads = <<>>
    /\ result = NoRet
    /\ valid = {}
    /\ cap_hit = FALSE

\* ------------------------------------------------------------------ valid completions

\* A grid is a sequence of 81 digits: the digit of cell c is grid[c + 1].
Peers(c) == UNION {Range(Houses[h]) : h \in {k \in 1..Len(Houses) : c \in Range(Houses[k])}} \ {c}

\* The digits a one-cell cage gives a cell.
Givens(cages, c) == {cages[i][1] : i \in {k \in 1..Len(cages) : cages[k][2] = <<c>>}}

ValidGrid(grid, cages) ==
    /\ \A h \in 1..Len(Houses) :
           Cardinality({grid[Houses[h][k] + 1] : k \in 1..BoardSide}) = BoardSide
    /\ \A i \in 1..Len(cages) :
           LET cells == Range(cages[i][2])
               RECURSIVE total(_)
               total(S) == IF S = {} THEN 0
                           ELSE LET c == CHOOSE x \in S : TRUE IN grid[c + 1] + total(S \ {c})
           IN /\ total(cells) = cages[i][1]
              /\ Cardinality({grid[c + 1] : c \in cells}) = Cardinality(cells)

\* Every grid over 1..9 that satisfies the rows, columns, boxes and user cages. A
\* cell's digit is sought among those that its own and its peers' one-cell cages allow.
ValidCompletions(cages) ==
    LET given == [c \in CellIndex |-> Givens(cages, c)]
        domain == [c \in CellIndex |->
                      {d \in 1..MaxDigit :
                          /\ \A g \in given[c] : g = d
                          /\ \A p \in Peers(c) : d \notin given[p]}]
        free == {c \in CellIndex : Cardinality(domain[c]) # 1}
        RECURSIVE choices(_)
        choices(S) == IF S = {} THEN {<<>>}
                      ELSE LET c == CHOOSE x \in S : \A y \in S : x <= y
                               rest == choices(S \ {c})
                           IN {<<d>> \o g : d \in domain[c], g \in rest}
        rank(c, S) == Cardinality({x \in S : x <= c})
        grid(choice) == [i \in 1..BoardCells |->
                            IF (i - 1) \in free THEN choice[rank(i - 1, free)]
                            ELSE CHOOSE d \in domain[i - 1] : TRUE]
    IN IF \E c \in CellIndex : domain[c] = {} THEN {}
       ELSE {g \in {grid(choice) : choice \in choices(free)} : ValidGrid(g, cages)}

\* The grid of a board whose cells are all solved.
GridOf(board) == [i \in 1..BoardCells |-> get_solution(board[i - 1])[1]]

\* ------------------------------------------------------------------ generator.rs

\* A Generator is a record [numbers, cages]: numbers the solution grid, cages the
\* BTreeMap from a cage's index to its record [cells, adjacent_cages] (two sets).
\* new_canonical: every cell is a cage of its own, adjacent to the cages of the cells
\* beside, above and below it.
new_canonical ==
    [numbers |-> [c \in CellIndex |-> Canonical(c)],
     cages |-> [i \in CellIndex |->
                   [cells |-> {i},
                    adjacent_cages |->
                        {j \in CellIndex :
                            \/ j \div BoardSide = i \div BoardSide /\ (j = i + 1 \/ i = j + 1)
                            \/ j = i + BoardSide
                            \/ i = j + BoardSide}]]]

\* The sum of the digits of a set of cells.
RECURSIVE SumOver(_, _)
SumOver(self, cells) ==
    IF cells = {} THEN 0
    ELSE LET c == Min(cells) IN self.numbers[c] + SumOver(self, cells \ {c})

get_cage_values(self, cage_index) ==
    {self.numbers[cell_index] : cell_index \in self.cages[cage_index].cells}

\* ab_union_len < 8: the bound that the digits of a merged cage stay under.
MergedValuesBound == 8

\* /* Insert contents of b into a */
insert_contents(cages, a, b) ==
    [cages EXCEPT ![a] = [cells |-> cages[a].cells \cup cages[b].cells,
                          adjacent_cages |-> cages[a].adjacent_cages
                                                 \cup (cages[b].adjacent_cages \ {a})]]

\* /* Delete b */
remove_cage(cages, b) == [i \in DOMAIN cages \ {b} |-> cages[i]]

\* Every cage keeps its references.
rename_references_skipped(cages, a, b) == cages

\* /* Rename all references to b so that they refer to a */
rename_references(cages, a, b) ==
    [cage_index \in DOMAIN cages |->
        IF b \in cages[cage_index].adjacent_cages
        THEN [cages[cage_index] EXCEPT
                 !.adjacent_cages = (@ \ {b}) \cup (IF cage_index # a THEN {a} ELSE {})]
        ELSE cages[cage_index]]

\* /* This merge will never be valid, so scrub from adjacent cage tables */
scrub(cages, a, b) ==
    Let([cages EXCEPT ![a].adjacent_cages = @ \ {b}],
        LAMBDA scrubbed : [scrubbed EXCEPT ![b].adjacent_cages = @ \ {a}])

\* What try_merge_cages does for a bound on the number of digits of the merged cage.
try_merge_cages_within(self, a, b, bound) ==
    IF a \notin DOMAIN self.cages \/ b \notin DOMAIN self.cages
    THEN [generator |-> self, ret |-> Panic("no entry found for key")]
    ELSE LET a_values == get_cage_values(self, a)
             b_values == get_cage_values(self, b)
             ab_union_len == Cardinality(a_values \cup b_values)
         IN IF Cardinality(a_values) + Cardinality(b_values) = ab_union_len
               /\ ab_union_len < bound
            THEN [generator |->
                      [self EXCEPT !.cages =
                          rename_references(remove_cage(insert_contents(self.cages, a, b), b),
                                            a, b)],
                  ret |-> TRUE]
            ELSE [generator |-> [self EXCEPT !.cages = scrub(self.cages, a, b)],
                  ret |-> FALSE]

\* A try_merge_cages that lets the merged cage have one digit more.
try_merge_cages_larger(self, a, b) == try_merge_cages_within(self, a, b, MergedValuesBound + 1)

try_merge_cages(self, a, b) == try_merge_cages_within(self, a, b, MergedValuesBound)

\* The keys of possible_merges: the pairs (min, max) of a cage and a cage adjacent to
\* it. Every key has a weight 1024 / (num_cells - 1) > 0, so the random number can
\* fall on any of them.
possible_merges(self) ==
    UNION {{<<Min({a, b}), Max({a, b})>> : b \in self.cages[a].adjacent_cages} :
              a \in DOMAIN self.cages}


\* A copy of the adjacency in which a cage that the copy no longer has keeps its own.
copy_adjacency_keeping_removed(cages, copy_cages) ==
    [cage_index \in DOMAIN cages |->
        IF cage_index \in DOMAIN copy_cages
        THEN [cages[cage_index] EXCEPT
                 !.adjacent_cages = copy_cages[cage_index].adjacent_cages]
        ELSE cages[cage_index]]

\* /* Copy updated adjacent cage state */ (generator.rs:268-275)
copy_adjacency(cages, copy_cages) ==
    [cage_index \in DOMAIN cages |->
        IF cage_index \in DOMAIN copy_cages
        THEN [cages[cage_index] EXCEPT
                 !.adjacent_cages = copy_cages[cage_index].adjacent_cages]
        ELSE [cages[cage_index] EXCEPT !.adjacent_cages = {}]]
\* ------------------------------------------------------------------ the enumerator's calls

\* Bounds of the (k, S) the enumerator is called with.
MaxCells == 9

MaxSum == 45

InitComb ==
    /\ call \in [fn : {"pending"}, num_cells : 1..MaxCells, sum : 1..MaxSum]
    /\ ret = NoRet
    /\ cell = {}
    /\ NoSolver
    /\ generator = NoGenerator

GetCombinations ==
    /\ call.fn = "pending"
    /\ call' = [call EXCEPT !.fn = "get_combinations"]
    /\ ret' = get_combinations(call.num_cells, call.sum)
    /\ UNCHANGED <<cell, solver_vars, generator>>

GetCombinationsUnion ==
    /\ call.fn = "pending"
    /\ call' = [call EXCEPT !.fn = "get_combinations_union"]
    /\ ret' = get_combinations_union(call.num_cells, call.sum)
    /\ UNCHANGED <<cell, solver_vars, generator>>

NextComb == GetCombinations \/ GetCombinationsUnion

SpecComb == InitComb /\ [][NextComb]_vars

\* The k-subsets of {1..9} that sum to S, by definition.
KSubsets(k, S) == {m \in SUBSET (1..MaxDigit) : Cardinality(m) = k /\ SumSet(m) = S}

\* Two distinct sets of the same size, compared as ascending digit lists.
LexLess(a, b) == a # b /\ Min((a \ b) \cup (b \ a)) \in a

Returned == call.fn = "get_combinations" /\ ret.tag # "none"

\* C7: every mask returned by get_combinations(k, S), 1 <= k <= 9, 1 <= S <= 45,
\* has only bits 1..9 set, has exactly k bits set, and its bit positions add up to S.
C7_ValidMasks ==
    (Returned /\ ret.tag = "Ok") =>
        \A i \in 1..Len(ret.val) :
            /\ ret.val[i] \subseteq 1..MaxDigit
            /\ popcnt64(ret.val[i]) = call.num_cells
            /\ SumSet(ret.val[i]) = call.sum

\* C8: for every (k, S) that some k-subset of {1..9} sums to, get_combinations
\* returns Ok with every such subset exactly once, in ascending order of digits.
C8_Complete ==
    (Returned /\ KSubsets(call.num_cells, call.sum) # {}) =>
        /\ ret.tag = "Ok"
        /\ {ret.val[i] : i \in 1..Len(ret.val)} = KSubsets(call.num_cells, call.sum)
        /\ Len(ret.val) = Cardinality(KSubsets(call.num_cells, call.sum))
        /\ \A i \in 1..(Len(ret.val) - 1) : LexLess(ret.val[i], ret.val[i + 1])

\* get_combinations(2, 13) has returned [{4,9}, {5,8}, {6,7}].
C8_Witness ==
    /\ Returned
    /\ call.num_cells = 2 /\ call.sum = 13
    /\ ret.tag = "Ok" /\ ret.val = <<{4, 9}, {5, 8}, {6, 7}>>

\* C9: for every (k, S) that no k-subset of {1..9} sums to, get_combinations
\* returns Ok with the empty list (no error, no non-empty list, no abort).
C9_InfeasibleEmpty ==
    (Returned /\ KSubsets(call.num_cells, call.sum) = {}) =>
        (ret.tag = "Ok" /\ ret.val = <<>>)

\* ------------------------------------------------------------------ a Cell under restriction

\* The masks a cell is restricted by: those over the bits 0..MaxMaskBit and their complements.
MaxMaskBit == 4

Masks == LET low == SUBSET (0..MaxMaskBit) IN low \cup {Not(m) : m \in low}

InitCell ==
    /\ cell = Cell_default
    /\ call = NoCall
    /\ ret = NoRet
    /\ NoSolver
    /\ generator = NoGenerator

RestrictTo ==
    \E mask \in Masks :
        /\ call' = [fn |-> "restrict_to", self |-> cell, possible_values |-> mask]
        /\ ret' = [tag |-> "Cell", val |-> restrict_to(cell, mask)]
        /\ cell' = restrict_to(cell, mask)
        /\ UNCHANGED <<solver_vars, generator>>

NextCell == RestrictTo

SpecCell == InitCell /\ [][NextCell]_vars

\* C10: restrict_to yields the cell whose domain is the intersection of the old
\* domain and the mask, and fails with Contradiction when that intersection is empty.
C10_RestrictOrContradiction ==
    call.fn = "restrict_to" =>
        IF call.self \cap call.possible_values = {}
        THEN ret.tag = "Err"
        ELSE ret.tag = "Cell" /\ ret.val = call.self \cap call.possible_values

\* ------------------------------------------------------------------ solve

\* The number of puzzles with one two-cell cage (cells i, i + 1) that are solved.
MaxPairs == 2

\* Two cages that leave box 0 by cells of the same digit (cells 3 and 29, digit 4).
ExcessCages == <<(<<2, 3>>), (<<20, 29>>)>>

\* The cells of digits 1 and 4 in rows 0..2: swapping the two digits there gives a
\* second valid grid.
SwapCells == {0, 3, 9, 15, 21, 24}

\* The last two cells of row 0: the row is reduced to them after seven partitions.
EndPair == <<7, 8>>

SolveInputs ==
    {Input("givens", Singles, TRUE),
     Input("excess", Merged(ExcessCages, 0), TRUE),
     Input("swap", Without(SwapCells), FALSE),
     Input("sum too small", Merged(<<(<<0, 1>>)>>, -2), FALSE),
     Input("digit twice in a row", <<(<<2, <<0>>>>)>> \o Without({0}), FALSE),
     Input("wrong sum", Merged(<<(<<0, 1, 2>>)>>, 2), FALSE),
     Input("pair at the end of a row", Merged(<<EndPair>>, 0), TRUE)}
    \cup {Input("pair", Merged(<<(<<i, i + 1>>)>>, 0), TRUE) : i \in 0..(MaxPairs - 1)}

InitSolve ==
    /\ input \in SolveInputs
    /\ puzzle = NoRet
    /\ threads = <<>>
    /\ result = NoRet
    /\ valid = ValidCompletions(input.cages)
    /\ cap_hit = FALSE
    /\ call = NoCall
    /\ ret = NoRet
    /\ cell = {}
    /\ generator = NoGenerator

\* main.rs / generator.rs: Puzzle::new() followed by init_cages.
InitCages ==
    /\ puzzle.tag = "none"
    /\ puzzle' = init_cages(Puzzle_new, input.cages, input.perform_checks)
    /\ UNCHANGED <<input, threads, result, valid, cap_hit, call_vars, generator>>

\* A call of solve_until_stuck_then_guess_and_fork on its own copy of the puzzle.
\* pc is where the call stands; guess_index and values are those of its guess;
\* current is the digit of the child it waits for; res is its list so far; result is
\* what it returns. For the properties only: joined are the digits of the children it
\* has joined and returned what each of them returned, in join order, and removed are
\* the cages its reduce_by_partition has taken out of the cage set.
Frame(p, depth) ==
    [puzzle |-> p, depth |-> depth, pc |-> "uniform", guess_index |-> 0, values |-> <<>>,
     current |-> 0, res |-> <<>>, result |-> NoRet, joined |-> <<>>, returned |-> <<>>,
     removed |-> {}]

top == threads[Len(threads)]

SetTop(frame) == [threads EXCEPT ![Len(threads)] = frame]

Finish(frame, r) == [frame EXCEPT !.pc = "done", !.result = r]

\* puzzle.rs:255-258
Solve ==
    /\ puzzle.tag = "Ok"
    /\ threads = <<>>
    /\ result.tag = "none"
    /\ threads' = <<Frame(puzzle.val, 0)>>
    /\ UNCHANGED <<input, puzzle, result, valid, cap_hit, call_vars, generator>>

\* puzzle.rs:198-201
UniformPass ==
    /\ threads # <<>>
    /\ top.pc = "uniform"
    /\ threads' =
           Let(uniform_fold(top.puzzle.cages, 1, Len(top.puzzle.cages), top.puzzle.board),
               LAMBDA r :
                   SetTop(IF r.tag = "Ok"
                          THEN [top EXCEPT !.puzzle.board = r.val, !.pc = "partition"]
                          ELSE Finish(top, r)))
    /\ UNCHANGED <<input, puzzle, result, valid, cap_hit, call_vars, generator>>

\* puzzle.rs:174-193: one turn of the loop of reduce_by_partition.
PartitionPass ==
    /\ threads # <<>>
    /\ top.pc = "partition"
    /\ threads' =
           Let(partition_fold(top.puzzle.cages, 1, Len(top.puzzle.cages), top.puzzle.board, <<>>),
               LAMBDA r :
                   SetTop(IF r.tag # "Ok" THEN Finish(top, r)
                          ELSE IF Len(r.val.substitutions) > 0
                          THEN [top EXCEPT
                                   !.puzzle.board = r.val.board,
                                   !.puzzle.cages = substitute(top.puzzle.cages,
                                                               r.val.substitutions,
                                                               1, Len(r.val.substitutions)),
                                   !.removed = @ \cup {r.val.substitutions[i][1] :
                                                           i \in 1..Len(r.val.substitutions)}]
                          ELSE [top EXCEPT !.puzzle.board = r.val.board,
                                           !.pc = "combination"]))
    /\ UNCHANGED <<input, puzzle, result, valid, cap_hit, call_vars, generator>>

\* puzzle.rs:203-205: reduce_by_combination as the condition of the while.
CombinationPass ==
    /\ threads # <<>>
    /\ top.pc = "combination"
    /\ threads' =
           Let(combination_fold(top.puzzle.cages, 1, Len(top.puzzle.cages),
                                top.puzzle.board, FALSE),
               LAMBDA r :
                   SetTop(IF r.tag # "Ok" THEN Finish(top, r)
                          ELSE [top EXCEPT
                                   !.puzzle.board = r.val.board,
                                   !.pc = IF r.val.progress THEN "partition" ELSE "decide"]))
    /\ UNCHANGED <<input, puzzle, result, valid, cap_hit, call_vars, generator>>

\* puzzle.rs:208 and 213-235: solved, at the cap, or the choice of the guess.
Decide ==
    /\ threads # <<>>
    /\ top.pc = "decide"
    /\ LET solved == all_solved(top.puzzle.board)
           capped == ~solved /\ top.depth > RECURSION_LIMIT
       IN /\ threads' =
                 SetTop(IF solved THEN Finish(top, Ok(<<top.puzzle>>))
                        ELSE IF capped THEN Finish(top, Err)
                        ELSE Let(guess_index(top.puzzle),
                                 LAMBDA g :
                                     IF g.tag # "Ok" THEN Finish(top, g)
                                     ELSE [top EXCEPT
                                              !.pc = "spawn", !.guess_index = g.val,
                                              !.values = possible_values(
                                                             top.puzzle.board[g.val])]))
          /\ cap_hit' = IF capped THEN TRUE ELSE cap_hit
    /\ UNCHANGED <<input, puzzle, result, valid, call_vars, generator>>

\* puzzle.rs:236-251: the iterator chain is lazy: .map(spawn) hands one handle at a
\* time to .filter_map(join), so the thread of a digit is spawned when the thread of
\* the digit before it has been joined. With no digit left, collect() and Ok(res).
Spawn ==
    /\ threads # <<>>
    /\ top.pc = "spawn"
    /\ threads' =
           IF top.values = <<>> THEN SetTop(Finish(top, Ok(top.res)))
           ELSE LET guess_value == Head(top.values)
                    puzzle_copy == top.puzzle
                IN Append(SetTop([top EXCEPT !.pc = "join", !.current = guess_value,
                                             !.values = Tail(top.values)]),
                          Frame(apply_guess(puzzle_copy, top.guess_index, guess_value),
                                top.depth + 1))
    /\ UNCHANGED <<input, puzzle, result, valid, cap_hit, call_vars, generator>>

\* A slip: the Err of a child is handed on, as `?` would.
join_propagating(res, child_result) ==
    IF child_result.tag # "Ok" THEN child_result ELSE Ok(res \o child_result.val)

\* puzzle.rs:248-250: handle.join().unwrap().ok(), flattened into the list: a panic
\* of the child is a panic here, its Err is dropped, its Ok list is appended.
join(res, child_result) ==
    IF child_result.tag = "Panic" THEN child_result
    ELSE IF child_result.tag = "Ok" THEN Ok(res \o child_result.val)
    ELSE Ok(res)

Join ==
    /\ Len(threads) >= 2
    /\ top.pc = "done"
    /\ LET child == top
           parent == threads[Len(threads) - 1]
           after == Let(join(parent.res, child.result),
                        LAMBDA r : IF r.tag # "Ok" THEN Finish(parent, r)
                                   ELSE [parent EXCEPT !.pc = "spawn", !.res = r.val])
       IN threads' = Append(SubSeq(threads, 1, Len(threads) - 2),
                            [after EXCEPT !.joined = Append(parent.joined, parent.current),
                                          !.returned = Append(parent.returned, child.result)])
    /\ UNCHANGED <<input, puzzle, result, valid, cap_hit, call_vars, generator>>

\* The outermost call returns to solve's caller.
Return ==
    /\ Len(threads) = 1
    /\ top.pc = "done"
    /\ result' = top.result
    /\ threads' = <<>>
    /\ UNCHANGED <<input, puzzle, valid, cap_hit, call_vars, generator>>

NextSolve ==
    \/ InitCages
    \/ Solve
    \/ UniformPass
    \/ PartitionPass
    \/ CombinationPass
    \/ Decide
    \/ Spawn
    \/ Join
    \/ Return

SpecSolve == InitSolve /\ [][NextSolve]_vars

\* ------------------------------------------------------------------ properties of solve

Solved(board) == \A c \in CellIndex : Cardinality(board[c] \cap (1..MaxDigit)) = 1 /\ Cardinality(board[c]) = 1

\* The lists of the children that returned Ok, one after the other.
RECURSIVE Concatenation(_)
Concatenation(returned) ==
    IF returned = <<>> THEN <<>>
    ELSE (IF Head(returned).tag = "Ok" THEN Head(returned).val ELSE <<>>)
         \o Concatenation(Tail(returned))

Guessing(frame) == frame.pc \in {"spawn", "join"}

\* C1: every board of the list that solve returns has each of its 81 cells reduced
\* to one digit of 1..9, and the digits satisfy the sum of every user cage, are
\* distinct inside every user cage, and are distinct in every row, column and box.
C1_Soundness ==
    result.tag = "Ok" =>
        \A i \in 1..Len(result.val) :
            /\ Solved(result.val[i].board)
            /\ ValidGrid(GridOf(result.val[i].board), input.cages)

\* solve has returned one board for a puzzle with a two-cell cage.
C1_Witness ==
    /\ input.name = "pair"
    /\ result.tag = "Ok"
    /\ Len(result.val) = 1
    /\ GridOf(result.val[1].board) \in valid

\* C2: no reducer removes from the board of the outermost call a digit that a valid
\* completion has there, and when solve has returned without any call reaching the
\* depth cap, it has returned Ok with every valid completion exactly once.
C2_Completeness ==
    /\ threads # <<>> =>
           \A g \in valid : \A c \in CellIndex : g[c + 1] \in threads[1].puzzle.board[c]
    /\ (result.tag # "none" /\ ~cap_hit) =>
           IF result.tag = "Ok"
           THEN /\ \A i \in 1..Len(result.val) : Solved(result.val[i].board)
                /\ {GridOf(result.val[i].board) : i \in 1..Len(result.val)} = valid
                /\ Len(result.val) = Cardinality(valid)
           ELSE valid = {}

\* C3: only the innermost call runs (each caller waits in join for the one child
\* it has spawned, so no two threads are ever runnable and nothing depends on a
\* scheduler); a call joins its children in ascending order of the guessed digit,
\* and its list is the concatenation of their lists in that order.
C3_JoinOrder ==
    \A t \in 1..Len(threads) :
        LET frame == threads[t]
        IN /\ t < Len(threads) => frame.pc = "join"
           /\ Guessing(frame) =>
                  frame.joined \o (IF frame.pc = "join" THEN <<frame.current>> ELSE <<>>)
                      \o frame.values
                  = Ascending(frame.puzzle.board[frame.guess_index])
           /\ Len(frame.returned) = Len(frame.joined)
           /\ Guessing(frame) => frame.res = Concatenation(frame.returned)
           /\ (frame.pc = "done" /\ frame.result.tag = "Ok" /\ frame.joined # <<>>) =>
                  /\ frame.joined = Ascending(frame.puzzle.board[frame.guess_index])
                  /\ frame.result.val = Concatenation(frame.returned)

\* A call has joined the children of both digits of its guess, 1 before 4.
C3_Witness ==
    \E t \in 1..Len(threads) :
        /\ threads[t].pc = "done"
        /\ threads[t].joined = <<1, 4>>
        /\ threads[t].result.tag = "Ok"

\* The call has joined a child that returned Err (a child under a guess returns
\* Err at the depth cap).
JoinedErr(frame) == \E i \in 1..Len(frame.returned) : frame.returned[i].tag = "Err"

\* C4 as stated: the Err (RecursionExhausted) of a call at the depth cap reaches
\* the caller of solve: every call that has joined a child that returned Err
\* returns Err itself, and so does solve once the cap has been hit; neither
\* returns Ok with the lists of the other branches.
C4_ExhaustionReported ==
    /\ \A t \in 1..Len(threads) :
           (threads[t].pc = "done" /\ JoinedErr(threads[t])) => threads[t].result.tag = "Err"
    /\ (cap_hit /\ result.tag # "none") => result.tag = "Err"

\* C4 as the code has it: the Err of a call at the depth cap goes to its parent
\* only, which drops it: a call that has joined children (none of which
\* aborted) returns Ok with the lists of those that returned Ok, and solve
\* returns Ok although the cap was hit.
C4_ExhaustionDropped ==
    /\ \A t \in 1..Len(threads) :
           LET frame == threads[t]
           IN (frame.pc = "done" /\ frame.returned # <<>>
                   /\ \A i \in 1..Len(frame.returned) : frame.returned[i].tag # "Panic") =>
                  /\ frame.result.tag = "Ok"
                  /\ frame.result.val = Concatenation(frame.returned)
    /\ (cap_hit /\ result.tag # "none") => result.tag = "Ok"

\* A call has joined two children that returned Err at the cap and has returned
\* Ok with the empty list, for a puzzle that has valid completions.
C4_Witness ==
    /\ cap_hit
    /\ valid # {}
    /\ \E t \in 1..Len(threads) :
           /\ threads[t].pc = "done"
           /\ Len(threads[t].returned) = 2
           /\ \A i \in 1..2 : threads[t].returned[i].tag = "Err"
           /\ threads[t].result.tag = "Ok"
           /\ threads[t].result.val = <<>>

\* C5: at most RECURSION_LIMIT guesses are nested: a call under RECURSION_LIMIT
\* guesses does not guess.
C5_DepthCap ==
    /\ Cardinality({t \in 1..Len(threads) : Guessing(threads[t])}) <= RECURSION_LIMIT
    /\ \A t \in 1..Len(threads) : Guessing(threads[t]) => threads[t].depth < RECURSION_LIMIT

\* C11: in every board of solve (of every live call, and every returned board) each
\* of the 81 cells has a mask that is not zero and has no bit outside 1..9.
C11_CellDomain ==
    /\ \A t \in 1..Len(threads) :
           \A c \in CellIndex :
               /\ threads[t].puzzle.board[c] # {}
               /\ threads[t].puzzle.board[c] \subseteq 1..MaxDigit
    /\ result.tag = "Ok" =>
           \A i \in 1..Len(result.val) :
               \A c \in CellIndex :
                   /\ result.val[i].board[c] # {}
                   /\ result.val[i].board[c] \subseteq 1..MaxDigit


\* C17: the board on which the child for the digit d of the guess cell starts equals
\* the board of its parent except that the guess cell's domain is {d} (and the
\* parent's board is the one the child was cloned from).
C17_GuessApplied ==
    \A t \in 2..Len(threads) :
        threads[t].pc = "uniform" =>
            threads[t].puzzle.board =
                [threads[t - 1].puzzle.board EXCEPT
                    ![threads[t - 1].guess_index] = {threads[t - 1].current}]

\* The sum of the popcounts of the cells lo..hi of a board.
RECURSIVE popcount_sum(_, _, _)
popcount_sum(board, lo, hi) ==
    IF lo > hi THEN 0
    ELSE IF lo = hi THEN num_possible_solutions(board[lo])
    ELSE popcount_sum(board, lo, (lo + hi) \div 2) + popcount_sum(board, (lo + hi) \div 2 + 1, hi)

DegreesOfFreedom(frame) == popcount_sum(frame.puzzle.board, 0, BoardCells - 1)

\* The step is a pass of the innermost call that reports a change: a turn of the loop
\* of reduce_by_partition that substituted cages, or a reduce_by_combination that
\* returned true.
ReportsChange ==
    /\ threads # <<>>
    /\ Len(threads') = Len(threads)
    /\ top.pc \in {"partition", "combination"}
    /\ threads'[Len(threads)].pc = "partition"

\* C20: every pass of solve_until_stuck that reports a change (a partition
\* substitution or progress of a reducer) strictly lowers the sum of the popcounts of
\* the 81 domains, so that the passes end; and on a puzzle that has a valid completion
\* that sum is never below 81.
C20_StrictDecrease ==
    [][/\ ReportsChange =>
              DegreesOfFreedom(threads'[Len(threads)]) < DegreesOfFreedom(top)
       /\ (valid # {} /\ threads' # <<>>) =>
              DegreesOfFreedom(threads'[Len(threads')]) >= BoardCells]_vars

\* C23: during solve of a validated puzzle, no call of check_for_partitions takes a
\* candidate of r cells whose domains hold fewer than r digits: no call of the search
\* ends on the assertion popcnt64(cells) == popcnt64(values).
C23_CardinalityAssertion ==
    input.perform_checks =>
        \A t \in 1..Len(threads) :
            threads[t].result # Panic("assert_eq popcnt64(cells), popcnt64(values)")

UniquenessCages(cages) == SelectSeq(cages, LAMBDA cage : cage.uniqueness)

CageSet(cages) == {cages[i] : i \in 1..Len(cages)}

\* The step is a pass of the innermost call from the program point `from` that the
\* call survives.
PassFrom(from) ==
    /\ threads # <<>>
    /\ Len(threads') = Len(threads)
    /\ top.pc = from
    /\ threads'[Len(threads)].pc # "done"

\* C24: the uniform-combination reducer and partition detection are applied to the
\* cages with uniqueness only: the uniform pass leaves the board that the reducer
\* gives on those cages alone, and a turn of reduce_by_partition leaves every cage
\* without uniqueness in the cage set.
C24_UniquenessOnly ==
    [][/\ PassFrom("uniform") =>
              Let(UniquenessCages(top.puzzle.cages),
                  LAMBDA cages :
                      threads'[Len(threads)].puzzle.board =
                          uniform_fold(cages, 1, Len(cages), top.puzzle.board).val)
       /\ PassFrom("partition") =>
              \A cage \in CageSet(top.puzzle.cages) :
                  ~cage.uniqueness => cage \in CageSet(threads'[Len(threads)].puzzle.cages)]_vars

SameCage(a, b) == a.cells = b.cells /\ a.sum = b.sum

\* C26: a cage that reduce_by_partition has removed from the cage set of a call is not
\* inserted again by a later substitution of that call: no cage with its cells and sum
\* is in the cage set afterwards.
C26_RemovedStayRemoved ==
    \A t \in 1..Len(threads) :
        \A original \in threads[t].removed :
            \A cage \in CageSet(threads[t].puzzle.cages) : ~SameCage(cage, original)
\* ------------------------------------------------------------------ init_cages

\* The number of cells that each family of cage lists is built for.
MaxVariant == 10

Variants == 0..(MaxVariant - 1)

\* The two-cell cages that leave row 2 (and the boxes 0 and 1) downwards, from the
\* cell CrossingFrom on, and the largest number of them in a cage list.
CrossingFrom == 18

MaxCrossing == 5

\* A cage of nine cells that is no row, column or box: the first eight cells of row 0
\* and the cell below the sixth, which hold the digits 1..9 in the starting grid.
NineCells == <<0, 1, 2, 3, 4, 5, 6, 7, 14>>

\* The first eight cells of column 0: a cage that leaves every row and box it meets by
\* five cells or more, so that none of them gets an excess cage.
ColumnCells == <<0, 9, 18, 27, 36, 45, 54, 63>>

RowCages == [i \in 1..BoardSide |-> <<HouseSum, row_cells(i - 1)>>]

\* Cage lists that partition the board and cage lists that do not.
InitInputs ==
    {Input("givens", Singles, TRUE),
     Input("rows", RowCages, TRUE),
     Input("none", <<>>, TRUE),
     Input("givens unchecked", Singles, FALSE),
     Input("nine cells", Merged(<<NineCells>>, 0), TRUE),
     Input("column cage", Merged(<<ColumnCells>>, 0), TRUE)}
    \cup {Input("pair", Merged(<<(<<i, i + 1>>)>>, 0), TRUE) : i \in Variants}
    \cup {Input("large sum", Merged(<<(<<i>>)>>, HouseSum), TRUE) : i \in Variants}
    \cup {Input("cell in no cage", Without({i}), TRUE) : i \in Variants}
    \cup {Input("cell in two cages", Singles \o <<CageOf(<<i, i + 1>>, 0)>>, TRUE) : i \in Variants}
    \cup {Input("cage listed twice", Singles \o <<CageOf(<<i>>, 0)>>, TRUE) : i \in Variants}
    \cup {Input("cell given twice", Singles \o <<CageOf(<<i>>, 1)>>, TRUE) : i \in Variants}
    \cup {Input("crossing", Merged([j \in 1..k |-> <<CrossingFrom + j - 1,
                                                        CrossingFrom + j - 1 + BoardSide>>], 0),
                 TRUE) : k \in 1..MaxCrossing}

InitInit ==
    /\ input \in InitInputs
    /\ puzzle = NoRet
    /\ threads = <<>>
    /\ result = NoRet
    /\ valid = {}
    /\ cap_hit = FALSE
    /\ call = NoCall
    /\ ret = NoRet
    /\ cell = {}
    /\ generator = NoGenerator

NextInit == InitCages

SpecInit == InitInit /\ [][NextInit]_vars

\* Every cell index 0..80 is listed once by the user's cages, and nothing else is.
Partition(cages) ==
    LET listed == {<<i, k>> \in (1..Len(cages)) \X (1..BoardCells) : k <= Len(cages[i][2])}
    IN /\ \A e \in listed : cages[e[1]][2][e[2]] \in CellIndex
       /\ \A c \in CellIndex : Cardinality({e \in listed : cages[e[1]][2][e[2]] = c}) = 1

\* C6: init_cages with checks returns a puzzle exactly when the user's cages
\* partition the board, whatever their shapes and sums, and stops with "Cells in
\* cages are not balanced" for every other list.
C6_Validation ==
    (puzzle.tag # "none" /\ input.perform_checks) =>
        IF Partition(input.cages)
        THEN puzzle.tag = "Ok"
        ELSE puzzle.tag = "Panic" /\ puzzle.val = "Cells in cages are not balanced"


\* ------------------------------------------------------------------ derived cages

\* The user's cages as records, and those that the closure of derive_cages looks at.
UserCages == {Cage_new(input.cages[i][2], input.cages[i][1], TRUE) : i \in 1..Len(input.cages)}

HouseCages == {Cage_new(Houses[h], HouseSum, TRUE) : h \in 1..Len(Houses)}

SumOf(cages) ==
    LET RECURSIVE total(_)
        total(S) == IF S = {} THEN 0
                    ELSE LET c == CHOOSE x \in S : TRUE IN c.sum + total(S \ {c})
    IN total(cages)

\* The user cages wholly inside a 9-cell parent and those that reach out of it.
Inside(parent) == {c \in UserCages : CellSet(c) \subseteq CellSet(parent)}

Overlapping(parent) ==
    {c \in UserCages : /\ CellSet(c) \cap CellSet(parent) # {}
                       /\ ~(CellSet(c) \subseteq CellSet(parent))}

\* P': the parent's cells that no cage inside it covers, with the rest of its sum.
Residual(parent) ==
    [cells |-> CellSet(parent) \ UNION {CellSet(c) : c \in Inside(parent)},
     sum |-> parent.sum - SumOf(Inside(parent))]

\* E': the cells of the overlapping cages outside the parent.
Excess(parent) ==
    [cells |-> UNION {CellSet(c) : c \in Overlapping(parent)} \ CellSet(parent),
     sum |-> SumOf(Overlapping(parent)) - Residual(parent).sum]

DerivedCages ==
    {puzzle.val.cages[i] : i \in 1..Len(puzzle.val.cages)} \ (HouseCages \cup UserCages)

DigitSum(grid, cells) ==
    LET RECURSIVE total(_)
        total(S) == IF S = {} THEN 0
                    ELSE LET c == CHOOSE x \in S : TRUE IN grid[c + 1] + total(S \ {c})
    IN total(cells)

IsResidual(cage) ==
    \E parent \in HouseCages :
        /\ CellSet(cage) = Residual(parent).cells
        /\ cage.sum = Residual(parent).sum
        /\ cage.uniqueness
        /\ 0 < Len(cage.cells) /\ Len(cage.cells) <= 8

IsExcess(cage) ==
    \E parent \in HouseCages :
        /\ CellSet(cage) = Excess(parent).cells
        /\ cage.sum = Excess(parent).sum
        /\ ~cage.uniqueness
        /\ 0 < Len(cage.cells) /\ Len(cage.cells) <= 4

Derived == puzzle.tag = "Ok" /\ input.perform_checks

\* C21: every cage that derive_cages adds is, for a 9-cell parent, the residual cage
\* P' with uniqueness, of 1..8 cells, or the excess cage E' without uniqueness, of
\* 1..4 cells, with the sums of the definition; and in every grid that satisfies the
\* Sudoku rules and the user's cage sums the digits of each added cage add up to its sum.
C21_DerivedImplied ==
    Derived =>
        \A cage \in DerivedCages :
            /\ IsResidual(cage) \/ IsExcess(cage)
            /\ \A grid \in ValidCompletions(input.cages) :
                   DigitSum(grid, CellSet(cage)) = cage.sum

\* Cages were derived for a puzzle that has a valid grid: a residual cage, an excess
\* cage of four cells, and none of five.
C21_Witness ==
    /\ Derived
    /\ ValidCompletions(input.cages) # {}
    /\ \E cage \in DerivedCages : IsResidual(cage) /\ Len(cage.cells) > 1
    /\ \E cage \in DerivedCages : IsExcess(cage) /\ Len(cage.cells) = 4

\* ------------------------------------------------------------------ aborts of the derivation

\* The user's cages partition the board and check_cages found every cell balanced.
Accepted ==
    /\ puzzle.tag # "none"
    /\ input.perform_checks
    /\ Partition(input.cages)
    /\ puzzle # Panic("Cells in cages are not balanced")

\* C22: for every cage list that partitions the 81 cells (cages of up to 9 cells) and
\* passes the validation, derive_cages does not fail its assertion that no cell of
\* the parent is left outside the excess cage, and no subtraction of sums goes below
\* zero: init_cages returns the puzzle.
C22_DerivationNeverAborts == Accepted => puzzle.tag = "Ok"
\* ------------------------------------------------------------------ operations on two cages

\* The cages the operations are called with: every sorted duplicate-free cell list over
\* the cells 0..MaxCageCell, with every sum 0..MaxCageSum (Cage::empty() among them).
MaxCageCell == 3

MaxCageSum == 2

StrictlySorted(s) == \A i \in 1..(Len(s) - 1) : s[i] < s[i + 1]

\* The ascending list of a set of cells.
RECURSIVE ListOf(_)
ListOf(cells) ==
    IF cells = {} THEN <<>> ELSE <<Min(cells)>> \o ListOf(cells \ {Min(cells)})

CageInputs ==
    {[cells |-> ListOf(cells), sum |-> sum, uniqueness |-> TRUE] :
        cells \in SUBSET (0..MaxCageCell), sum \in 0..MaxCageSum}

InitCage ==
    /\ call \in [fn : {"pending"}, self : CageInputs, other : CageInputs]
    /\ ret = NoRet
    /\ cell = {}
    /\ NoSolver
    /\ generator = NoGenerator

GetIntersectionAndDifference ==
    /\ call.fn = "pending"
    /\ call' = [call EXCEPT !.fn = "get_intersection_and_difference"]
    /\ ret' = [tag |-> "Lists", val |-> get_intersection_and_difference(call.self, call.other)]
    /\ UNCHANGED <<cell, solver_vars, generator>>

Merge ==
    /\ call.fn = "pending"
    /\ call' = [call EXCEPT !.fn = "merge"]
    /\ ret' = [tag |-> "Cage", val |-> merge(call.self, call.other)]
    /\ UNCHANGED <<cell, solver_vars, generator>>

NextCage == GetIntersectionAndDifference \/ Merge

SpecCage == InitCage /\ [][NextCage]_vars

Elems(s) == {s[i] : i \in 1..Len(s)}

\* C12: for two cages A and B with sorted duplicate-free cell lists, the three lists
\* returned by get_intersection_and_difference are each sorted, pairwise disjoint, and
\* the first with the second makes up A's cells, the first with the third B's cells.
C12_RoundTrip ==
    call.fn = "get_intersection_and_difference" =>
        LET intersection == ret.val[1]
            difference_a == ret.val[2]
            difference_b == ret.val[3]
        IN  /\ StrictlySorted(intersection)
            /\ StrictlySorted(difference_a)
            /\ StrictlySorted(difference_b)
            /\ Elems(intersection) \cap Elems(difference_a) = {}
            /\ Elems(intersection) \cap Elems(difference_b) = {}
            /\ Elems(difference_a) \cap Elems(difference_b) = {}
            /\ Elems(intersection) \cup Elems(difference_a) = CellSet(call.self)
            /\ Elems(intersection) \cup Elems(difference_b) = CellSet(call.other)

\* Two cages that overlap and each have a cell the other lacks have been compared.
C12_Witness ==
    /\ call.fn = "get_intersection_and_difference"
    /\ ret.val[1] # <<>>
    /\ Len(ret.val[2]) = 2
    /\ ret.val[3] # <<>>
    /\ ret.val[2] # ret.val[3]

\* C13: merge(a, b) returns a cage whose cell list is sorted and duplicate-free and is
\* the union of a's and b's cells, whose sum is a.sum + b.sum; merging the empty cage
\* with a cage, on either side, gives that cage's cells and sum.
C13_MergeInvariant ==
    call.fn = "merge" =>
        /\ StrictlySorted(ret.val.cells)
        /\ Elems(ret.val.cells) = CellSet(call.self) \cup CellSet(call.other)
        /\ ret.val.sum = call.self.sum + call.other.sum
        /\ (call.self.cells = <<>> /\ call.self.sum = 0) =>
               ret.val.cells = call.other.cells /\ ret.val.sum = call.other.sum
        /\ (call.other.cells = <<>> /\ call.other.sum = 0) =>
               ret.val.cells = call.self.cells /\ ret.val.sum = call.self.sum

\* ------------------------------------------------------------------ the reducers on one cage

\* The cages and boards the reducers are called with: a uniqueness cage of the cells
\* 0..n-1, 2 <= n <= MaxReduceCells, with a sum of ReduceSums, on a board whose cells
\* outside the cage are untouched and whose cells in the cage have a domain of
\* ReduceDomains.
MaxReduceCells == 4

ReduceSums == {3, 7, 10}

ReduceDomains == {{1}, {3}, {1, 2}, {3, 4}, {1, 2, 3}, Cell_default}

ReduceBoards(n) ==
    {[c \in CellIndex |-> IF c < n THEN domains[c + 1] ELSE Cell_default] :
        domains \in [1..n -> ReduceDomains]}

InitReduce ==
    /\ \E n \in 2..MaxReduceCells :
           call \in [fn : {"pending"},
                     self : {Cage_new([i \in 1..n |-> i - 1], sum, TRUE) : sum \in ReduceSums},
                     board : ReduceBoards(n)]
    /\ ret = NoRet
    /\ cell = {}
    /\ NoSolver
    /\ generator = NoGenerator

RestrictByUniformCombination ==
    /\ call.fn = "pending"
    /\ call' = [call EXCEPT !.fn = "restrict_by_uniform_combination"]
    /\ ret' = restrict_by_uniform_combination(call.self, call.board)
    /\ UNCHANGED <<cell, solver_vars, generator>>

CheckForPartitions ==
    /\ call.fn = "pending"
    /\ call' = [call EXCEPT !.fn = "check_for_partitions"]
    /\ ret' = check_for_partitions(call.self, call.board)
    /\ UNCHANGED <<cell, solver_vars, generator>>

RestrictByCombination ==
    /\ call.fn = "pending"
    /\ call' = [call EXCEPT !.fn = "restrict_by_combination"]
    /\ ret' = restrict_by_combination(call.self, call.board)
    /\ UNCHANGED <<cell, solver_vars, generator>>

Restrict ==
    /\ call.fn = "pending"
    /\ call' = [call EXCEPT !.fn = "restrict"]
    /\ ret' = restrict(call.self, call.board)
    /\ UNCHANGED <<cell, solver_vars, generator>>

NextReduce ==
    RestrictByUniformCombination \/ CheckForPartitions \/ RestrictByCombination \/ Restrict

SpecReduce == InitReduce /\ [][NextReduce]_vars

ReducerReturned ==
    /\ call.fn \in {"restrict_by_uniform_combination", "check_for_partitions",
                    "restrict_by_combination", "restrict"}
    /\ ret.tag = "Ok"

\* C14: when a reducer (uniform combination, partition detection, combination or
\* pairwise restriction) returns, each of the 81 cells has a domain that is a subset of
\* the domain it had when the reducer was called.
C14_Monotone ==
    ReducerReturned => \A c \in CellIndex : ret.val.board[c] \subseteq call.board[c]

\* A reducer has returned a board on which a cell has lost a digit.
C14_Witness ==
    /\ ReducerReturned
    /\ call.fn = "restrict"
    /\ \E c \in CellIndex : ret.val.board[c] # call.board[c]

\* ------------------------------------------------------------------ partition detection

\* The sets of positions (1-based) of the called cage.
Positions == 1..Len(call.self.cells)

\* The union of the domains, on the board passed in, of the cells at the positions P.
DomainUnion(P) == UNION {call.board[call.self.cells[i]] : i \in P}

\* The sizes of the non-empty proper subsets of the cage's cells whose domains hold, in
\* all, as many digits as the subset has cells.
HiddenSizes ==
    {Cardinality(P) : P \in {Q \in SUBSET Positions :
                                 /\ Q # {}
                                 /\ Q # Positions
                                 /\ Cardinality(DomainUnion(Q)) = Cardinality(Q)}}

PartitionReturned ==
    /\ call.fn = "check_for_partitions"
    /\ ret.tag = "Ok"
    /\ ret.val.res # <<>>

\* C18: for a uniqueness cage of n >= 2 cells, whenever some non-empty proper subset of
\* r cells has domains whose union has exactly r digits, check_for_partitions returns
\* a partition, and the cage it splits off has the smallest such r as its size.
C18_SmallestHiddenSubset ==
    (call.fn = "check_for_partitions" /\ HiddenSizes # {}) =>
        /\ PartitionReturned
        /\ Len(ret.val.res[1].cells) = Min(HiddenSizes)

\* C19: when check_for_partitions returns (new, remaining), both cell lists are
\* non-empty, disjoint and together the cage's cells; new.sum is the sum of the digits
\* of the union of the domains of new's cells and new.sum + remaining.sum is the cage's
\* sum; on the board left, every cell of new has its domain inside that union and no
\* cell of remaining has a digit of it.
C19_PartitionConserves ==
    PartitionReturned =>
        LET new == ret.val.res[1]
            remaining == ret.val.res[2]
            found == UNION {call.board[c] : c \in CellSet(new)}
        IN  /\ new.cells # <<>>
            /\ remaining.cells # <<>>
            /\ CellSet(new) \cap CellSet(remaining) = {}
            /\ CellSet(new) \cup CellSet(remaining) = CellSet(call.self)
            /\ Len(new.cells) + Len(remaining.cells) = Len(call.self.cells)
            /\ new.sum = SumSet(found)
            /\ new.sum + remaining.sum = call.self.sum
            /\ \A c \in CellSet(new) : ret.val.board[c] \subseteq found
            /\ \A c \in CellSet(remaining) : ret.val.board[c] \cap found = {}

\* A cage of four cells was split into two cells and two cells, and a cell of the
\* remaining cage lost a digit of the found union.
C19_Witness ==
    /\ PartitionReturned
    /\ Len(ret.val.res[1].cells) = 2
    /\ Len(ret.val.res[2].cells) = 2
    /\ \E c \in CellSet(ret.val.res[2]) :
           call.board[c] \cap UNION {call.board[d] : d \in CellSet(ret.val.res[1])} # {}

\* ------------------------------------------------------------------ Cage::restrict

\* The cells of the called cage that are not solved on the board passed in.
UnsolvedCells == {c \in CellSet(call.self) : get_solution(call.board[c]) = <<>>}

\* C25: when three or more cells of the cage are still unsolved, Cage::restrict leaves
\* every cell of the board as it was and returns false.
C25_NoOpOnThree ==
    (call.fn = "restrict" /\ Cardinality(UnsolvedCells) >= 3) =>
        ret = Reduced(call.board, FALSE)

\* The digits of the solved cells of the called cage, added up.
SolvedSum ==
    LET RECURSIVE total(_)
        total(S) == IF S = {} THEN 0
                    ELSE LET c == CHOOSE x \in S : TRUE
                         IN get_solution(call.board[c])[1] + total(S \ {c})
    IN total(CellSet(call.self) \ UnsolvedCells)

\* The board passed in is inconsistent with the cage: the solved digits add up to more
\* than its sum, or some cells are forced to a set of digits that adds up to more, or
\* every cell is solved and part of the sum remains.
Inconsistent ==
    \/ SolvedSum > call.self.sum
    \/ \E Q \in SUBSET Positions :
           /\ Q # {}
           /\ Cardinality(DomainUnion(Q)) = Cardinality(Q)
           /\ SumSet(DomainUnion(Q)) > call.self.sum
    \/ UnsolvedCells = {} /\ SolvedSum < call.self.sum

\* C27: on a board whose cells are non-empty but inconsistent with the cage, restrict
\* and check_for_partitions report the contradiction or leave the board as it is: they
\* do not abort (no unsigned underflow, no first element of an empty list).
C27_NoAbortOnInconsistency ==
    (call.fn \in {"restrict", "check_for_partitions"} /\ Inconsistent) =>
        ret.tag # "Panic"

\* ------------------------------------------------------------------ the generator's merges

\* The merges that the random number is let fall on: those of two cages whose indices
\* are both cells of MergeRegion (the first row, and the cell below its first cell).
MergeRegion == (0..(BoardSide - 1)) \cup {BoardSide}

InitGenerator ==
    /\ generator = new_canonical
    /\ call = NoCall
    /\ ret = NoRet
    /\ cell = {}
    /\ NoSolver

\* try_merge_random_cages: Err(()) when no two cages are adjacent, else
\* Ok(try_merge_cages(a, b)) for the pair that the random number falls on.
TryMergeRandomCages ==
    IF possible_merges(generator) = {}
    THEN /\ call' = [fn |-> "try_merge_random_cages"]
         /\ ret' = Err
         /\ UNCHANGED <<generator, cell, solver_vars>>
    ELSE \E pair \in possible_merges(generator) \cap (MergeRegion \X MergeRegion) :
             LET merged == try_merge_cages(generator, pair[1], pair[2])
             IN  /\ call' = [fn |-> "try_merge_cages", a |-> pair[1], b |-> pair[2],
                             self |-> generator]
                 /\ ret' = Ok(merged.ret)
                 /\ generator' = merged.generator
                 /\ UNCHANGED <<cell, solver_vars>>

NextGenerator == TryMergeRandomCages

SpecGenerator == InitGenerator /\ [][NextGenerator]_vars

\* The digits of the cells of a cage before the call.
OldValues(cage_index) == get_cage_values(call.self, cage_index)

OldCells(cage_index) == call.self.cages[cage_index].cells

OldAdjacent(cage_index) == call.self.cages[cage_index].adjacent_cages

MergeDone == call.fn = "try_merge_cages" /\ ret = Ok(TRUE)

MergeRefused == call.fn = "try_merge_cages" /\ ret = Ok(FALSE)

\* C15: try_merge_cages(a, b) returns true exactly when the digits of cage a and the
\* digits of cage b are disjoint and the merged cage would have at most 7 cells; when
\* it returns false the cages and the cells of each are as before.
C15_MergePredicate ==
    call.fn = "try_merge_cages" =>
        /\ ret \in {Ok(TRUE), Ok(FALSE)}
        /\ MergeDone <=> (/\ OldValues(call.a) \cap OldValues(call.b) = {}
                       /\ Cardinality(OldCells(call.a) \cup OldCells(call.b)) <= 7)
        /\ MergeRefused =>
               /\ DOMAIN generator.cages = DOMAIN call.self.cages
               /\ \A i \in DOMAIN generator.cages : generator.cages[i].cells = OldCells(i)

\* A cage of four cells or more and a cage that holds one of its digits were not merged.
C15_Witness ==
    /\ MergeRefused
    /\ Cardinality(OldCells(call.a)) >= 4
    /\ OldValues(call.a) \cap OldValues(call.b) # {}

\* C16: after try_merge_cages(a, b) returned true, cage b is gone, cage a has the cells
\* of the old a and the old b, there is one cage less, the cages partition the 81
\* cells, a's adjacency is the old adjacency of a and of b without a and b, every other
\* cage that was adjacent to b is adjacent to a, and no cage refers to b.
C16_MergeEffect ==
    MergeDone =>
        LET cages == generator.cages
        IN  /\ call.b \notin DOMAIN cages
            /\ cages[call.a].cells = OldCells(call.a) \cup OldCells(call.b)
            /\ Cardinality(DOMAIN cages) = Cardinality(DOMAIN call.self.cages) - 1
            /\ UNION {cages[i].cells : i \in DOMAIN cages} = CellIndex
            /\ \A i, j \in DOMAIN cages : i # j => cages[i].cells \cap cages[j].cells = {}
            /\ cages[call.a].adjacent_cages =
                   (OldAdjacent(call.a) \cup OldAdjacent(call.b)) \ {call.a, call.b}
            /\ \A i \in DOMAIN cages :
                   /\ (i # call.a /\ call.b \in OldAdjacent(i)) => call.a \in cages[i].adjacent_cages
                   /\ call.b \notin cages[i].adjacent_cages

\* Two cages of more than one cell each were merged, and a third cage that was adjacent
\* to the second is now adjacent to the first.
C16_Witness ==
    /\ MergeDone
    /\ Cardinality(OldCells(call.a)) > 1
    /\ Cardinality(OldCells(call.b)) > 1
    /\ \E i \in DOMAIN generator.cages :
           /\ i # call.a
           /\ call.b \in OldAdjacent(i)
           /\ call.a \notin OldAdjacent(i)
           /\ call.a \in generator.cages[i].adjacent_cages


\* ------------------------------------------------------------------ eliminate_cage

\* The merges that the random number is let fall on in eliminate_cage: those of two
\* cages whose indices are both among the first cells of row 0 or cells of ExcessCages.
EliminateCells == 4

EliminateRegion ==
    (0..(EliminateCells - 1)) \cup UNION {Range(ExcessCages[i]) : i \in 1..Len(ExcessCages)}

\* generator.rs:132-148: the cages in the order of their keys, each with the sum of the
\* digits of its cells and the list of its cells.
serialize(self) ==
    LET keys == Ascending(DOMAIN self.cages)
    IN [k \in 1..Len(keys) |->
           <<SumOver(self, self.cages[keys[k]].cells),
             Ascending(self.cages[keys[k]].cells)>>]

\* The puzzle of the one-cell cages with the cages of ExcessCages.
ExcessPuzzle == Merged(ExcessCages, 0)

\* What try_eliminate_cage gets from Puzzle::from_serializable(s).solve(): one
\* solution ("unique"), another number of solutions ("not unique"), or no result
\* ("failed": Err(()), which is answered by panic!, or a panic of the solver itself).
\* The solver's run on ExcessPuzzle ends in a panic (SpecSolve, ExcessPuzzleFails); on
\* any other puzzle both verdicts are taken.
solve_verdicts(s) ==
    IF Range(s) = Range(ExcessPuzzle) THEN {"failed"} ELSE {"unique", "not unique"}

\* The run of solve() on ExcessPuzzle ends in a panic.
ExcessPuzzleFails ==
    (input.cages = ExcessPuzzle /\ input.perform_checks /\ result.tag # "none") =>
        result.tag = "Panic"

InitEliminate ==
    /\ generator = new_canonical
    /\ call = NoCall
    /\ ret = NoRet
    /\ cell = {}
    /\ NoSolver

\* A call of eliminate_cage: copy is the clone that try_eliminate_cage works on, pc is
\* where the call stands ("merge": in merge_random_cages, "solve": before
\* puzzle.solve(), "done": returned or aborted), before is the generator at the call.
\* generator.rs:259-260
EliminateCage ==
    /\ IF call = NoCall THEN TRUE ELSE call.pc = "done" /\ ret.tag = "Ok"
    /\ call' = [fn |-> "eliminate_cage", pc |-> "merge", copy |-> generator,
                before |-> generator]
    /\ ret' = NoRet
    /\ UNCHANGED <<generator, cell, solver_vars>>

Running(pc) == call # NoCall /\ call.fn = "eliminate_cage" /\ call.pc = pc

\* generator.rs:238-244 and 197-236: one try_merge_random_cages of merge_random_cages
\* on the copy. Err(()) ends eliminate_cage with false, Ok(true) goes on to the
\* solver, Ok(false) tries again.
MergeRandomCages ==
    /\ Running("merge")
    /\ IF possible_merges(call.copy) = {}
       THEN /\ call' = [call EXCEPT !.pc = "done"]
            /\ ret' = Ok(FALSE)
       ELSE \E pair \in possible_merges(call.copy) \cap (EliminateRegion \X EliminateRegion) :
                LET merged == try_merge_cages(call.copy, pair[1], pair[2])
                IN  IF {pair[1], pair[2]} \subseteq DOMAIN call.copy.cages
                    THEN /\ call' = [call EXCEPT !.copy = merged.generator,
                                                 !.pc = IF merged.ret THEN "solve"
                                                        ELSE "merge"]
                         /\ ret' = ret
                    ELSE /\ call' = [call EXCEPT !.pc = "done"]
                         /\ ret' = merged.ret
    /\ UNCHANGED <<generator, cell, solver_vars>>

\* generator.rs:249-253 and 261-278: the solver's verdict on the merged copy and what
\* eliminate_cage does with it; after Ok(false) it calls itself, on a new clone.
SolveCopy ==
    /\ Running("solve")
    /\ \E verdict \in solve_verdicts(serialize(call.copy)) :
           IF verdict = "unique"
           THEN /\ generator' = call.copy
                /\ call' = [call EXCEPT !.pc = "done"]
                /\ ret' = Ok(TRUE)
           ELSE IF verdict = "not unique"
           THEN /\ generator' =
                       [generator EXCEPT !.cages = copy_adjacency(@, call.copy.cages)]
                /\ call' = [call EXCEPT !.pc = "merge", !.copy = generator']
                /\ ret' = ret
           ELSE /\ generator' = generator
                /\ call' = [call EXCEPT !.pc = "done"]
                /\ ret' = Panic("The puzzle should not have contradictions")
    /\ UNCHANGED <<cell, solver_vars>>

NextEliminate == EliminateCage \/ MergeRandomCages \/ SolveCopy

SpecEliminate == InitEliminate /\ [][NextEliminate]_vars

\* Two cells beside each other in a row, or one above the other.
Neighbours(x, y) ==
    IF x \div BoardSide = y \div BoardSide THEN x = y + 1 \/ y = x + 1
    ELSE x = y + BoardSide \/ y = x + BoardSide

Touching(A, B) == \E x \in A, y \in B : Neighbours(x, y)

\* The cells of S that are reached from the cells of `reached` through neighbours in S.
RECURSIVE Region(_, _)
Region(S, reached) ==
    LET more == {x \in S \ reached : \E y \in reached : Neighbours(x, y)}
    IN IF more = {} THEN reached ELSE Region(S, reached \cup more)

Connected(S) == S = {} \/ Region(S, {CHOOSE x \in S : TRUE}) = S

WellFormed(cages) ==
    \A a \in DOMAIN cages :
        /\ a \notin cages[a].adjacent_cages
        /\ \A b \in cages[a].adjacent_cages :
               /\ b \in DOMAIN cages
               /\ a \in cages[b].adjacent_cages

\* C29: in the generator and in the copy that eliminate_cage merges in, adjacency is
\* symmetric, no cage is adjacent to itself, and every adjacent index is the key of a
\* cage of the map.
C29_AdjacencyWellFormed ==
    /\ WellFormed(generator.cages)
    /\ call # NoCall => WellFormed(call.copy.cages)

\* An attempt was rejected (its removed cage has no adjacent cage left in the
\* generator), and the copy of a later attempt has merged two cages.
C29_Witness ==
    /\ Running("solve")
    /\ \E a \in DOMAIN generator.cages : generator.cages[a].adjacent_cages = {}
    /\ Cardinality(DOMAIN call.copy.cages) < Cardinality(DOMAIN generator.cages)

\* C30: eliminate_cage returns: a call does not end without true or false.
C30_EliminateReturns ==
    (call # NoCall /\ call.pc = "done") => ret \in {Ok(TRUE), Ok(FALSE)}
====
